---- MODULE Spec2Model ----
(***************************************************************************)
(* The 16-bit GPR CPU emulator of src/gpr_cpu.cpp (Bus, decode helpers,    *)
(* flag updates, reset/step/execute/run) driven as src/main.cpp drives it. *)
(*                                                                         *)
(* The header gpr_cpu.h (MEMORY_SIZE, the FLAG_* masks, the Opcode         *)
(* enumeration, CPUState) is not among the sources; the definitions that   *)
(* stand for it are marked as such where they are introduced.              *)
(***************************************************************************)
EXTENDS Integers, Sequences, FiniteSets, TLC

VARIABLES
    state,        \* GPRCPU::state : [R, PC, FLAGS, halted]
    memory,       \* Bus::memory, the cells that are not 0 (all other cells hold 0)
    capacity,     \* number of cells of the Bus (MEMORY_SIZE for the emulator's Bus)
    call,         \* the operation that ran last
    arg,          \* its arguments
    ret,          \* value returned by the last step() / Bus::read()
    instruction,  \* local of step(): the word fetched last
    dec,          \* locals of execute(): op, rd, rs, imm9 of the word decoded last
    pc,           \* position inside run(): "idle" (not in run), "loop", "exit"
    cycles,       \* local of run()
    runRet,       \* value returned by the last run() that returned
    entry,        \* CPU state, memory and counters when run() was entered
    fetches,      \* number of instruction fetches made so far
    runnable,     \* number of step() calls that returned true so far
    tracing,      \* GPRCPU::tracing
    out,          \* what the last step() printed: << >> or its two trace parts
    twin          \* a second GPRCPU on a second Bus, tracing disabled

\* the trace flag, the trace output and the second core
traceVars == << tracing, out, twin >>

vars == << state, memory, capacity, call, arg, ret, instruction, dec,
           pc, cycles, runRet, entry, fetches, runnable, traceVars >>

-----------------------------------------------------------------------------
(* Widths and header constants *)

\* uint16_t: registers, PC, memory cells, instruction words
WORD == 65536

\* gpr_cpu.h: number of 16-bit cells of the Bus
MEMORY_SIZE == 65536

\* gpr_cpu.h: the three flag masks (distinct single bits)
FLAG_ZERO == 1
FLAG_CARRY == 2
FLAG_NEGATIVE == 4

\* gpr_cpu.h: enum class Opcode, in the order of the switch in execute()
HALT == 0
MOVI == 1
MOV == 2
LOAD == 3
STORE == 4
ADD == 5
SUB == 6
AND == 7
OR == 8
XOR == 9
NOT == 10
SHL == 11
SHR == 12
JMP == 13
JZ == 14
NOP == 15

-----------------------------------------------------------------------------
(* Bounds of the model *)

\* step() fetches at most this many instruction words in one behaviour
MaxFetches == 8

\* largest small capacity of the Bus in the Bus specification
MaxCapacity == 3

-----------------------------------------------------------------------------
(* Bit operations of C++ on unsigned values *)

RECURSIVE BitAnd(_, _)
BitAnd(x, y) ==
    IF x = 0 \/ y = 0 THEN 0
    ELSE (x % 2) * (y % 2) + 2 * BitAnd(x \div 2, y \div 2)

RECURSIVE BitOr(_, _)
BitOr(x, y) ==
    IF x = 0 THEN y
    ELSE IF y = 0 THEN x
    ELSE (IF x % 2 = 1 \/ y % 2 = 1 THEN 1 ELSE 0) + 2 * BitOr(x \div 2, y \div 2)

RECURSIVE BitXor(_, _)
BitXor(x, y) ==
    IF x = 0 THEN y
    ELSE IF y = 0 THEN x
    ELSE ((x + y) % 2) + 2 * BitXor(x \div 2, y \div 2)

\* ~x stored into a uint16_t
BitNot16(x) == (WORD - 1) - x

\* x &= ~mask
ClearBits(x, mask) == x - BitAnd(x, mask)

-----------------------------------------------------------------------------
(* Bus *)

\* memory[address]
Cell(mem, address) == IF address \in DOMAIN mem THEN mem[address] ELSE 0

\* memory[address] = value
SetCell(mem, address, value) ==
    IF value = 0
    THEN [x \in DOMAIN mem \ {address} |-> mem[x]]
    ELSE [x \in DOMAIN mem \cup {address} |-> IF x = address THEN value ELSE mem[x]]

\* Bus::Bus(): every cell is 0
ZeroMemory == [x \in {} |-> 0]

Bus_read(mem, cap, address) ==
    IF address < cap THEN Cell(mem, address) ELSE 0

\* variant of Bus::write: the last cell cannot be written
Bus_write_offByOne(mem, cap, address, value) ==
    IF address < cap - 1 THEN SetCell(mem, address, value) ELSE mem

\* variant of Bus::write: the address wraps into the capacity instead of being tested
Bus_write_wrap(mem, cap, address, value) ==
    SetCell(mem, address % cap, value)

Bus_write(mem, cap, address, value) ==
    IF address < cap THEN SetCell(mem, address, value) ELSE mem

-----------------------------------------------------------------------------
(* Decode helpers *)

decodeOpcode(inst) == BitAnd(inst \div 4096, 15)

\* variant of decodeRd: shift by 8
decodeRd_shift8(inst) == BitAnd(inst \div 256, 7)

decodeRd(inst) == BitAnd(inst \div 512, 7)

decodeRs(inst) == BitAnd(inst \div 64, 7)

decodeImm9(inst) == BitAnd(inst, 511)

-----------------------------------------------------------------------------
(* Flag updates: each takes FLAGS and returns the new FLAGS *)

\* variant of setResultFlags: the three flags are not cleared first
setResultFlags_accumulate(FLAGS, result) ==
    LET f1 == IF result = 0 THEN BitOr(FLAGS, FLAG_ZERO) ELSE FLAGS
    IN  IF BitAnd(result, 32768) # 0 THEN BitOr(f1, FLAG_NEGATIVE) ELSE f1

setResultFlags(FLAGS, result) ==
    LET f0 == ClearBits(FLAGS, FLAG_ZERO + FLAG_CARRY + FLAG_NEGATIVE)
        f1 == IF result = 0 THEN BitOr(f0, FLAG_ZERO) ELSE f0
    IN  IF BitAnd(result, 32768) # 0 THEN BitOr(f1, FLAG_NEGATIVE) ELSE f1

\* variant of setAddFlags: carry tested on the truncated result
setAddFlags_carryFromResult(FLAGS, a, b, result) ==
    LET f0 == ClearBits(FLAGS, FLAG_ZERO + FLAG_CARRY + FLAG_NEGATIVE)
        f1 == IF result = 0 THEN BitOr(f0, FLAG_ZERO) ELSE f0
        f2 == IF BitAnd(result, 32768) # 0 THEN BitOr(f1, FLAG_NEGATIVE) ELSE f1
    IN  IF result > 65535 THEN BitOr(f2, FLAG_CARRY) ELSE f2

setAddFlags(FLAGS, a, b, result) ==
    LET f0 == ClearBits(FLAGS, FLAG_ZERO + FLAG_CARRY + FLAG_NEGATIVE)
        f1 == IF result = 0 THEN BitOr(f0, FLAG_ZERO) ELSE f0
        f2 == IF BitAnd(result, 32768) # 0 THEN BitOr(f1, FLAG_NEGATIVE) ELSE f1
    IN  IF (a + b) > 65535 THEN BitOr(f2, FLAG_CARRY) ELSE f2

\* variant of setSubFlags: carry when a > b
setSubFlags_strict(FLAGS, a, b, result) ==
    LET f0 == ClearBits(FLAGS, FLAG_ZERO + FLAG_CARRY + FLAG_NEGATIVE)
        f1 == IF result = 0 THEN BitOr(f0, FLAG_ZERO) ELSE f0
        f2 == IF BitAnd(result, 32768) # 0 THEN BitOr(f1, FLAG_NEGATIVE) ELSE f1
    IN  IF a > b THEN BitOr(f2, FLAG_CARRY) ELSE f2

setSubFlags(FLAGS, a, b, result) ==
    LET f0 == ClearBits(FLAGS, FLAG_ZERO + FLAG_CARRY + FLAG_NEGATIVE)
        f1 == IF result = 0 THEN BitOr(f0, FLAG_ZERO) ELSE f0
        f2 == IF BitAnd(result, 32768) # 0 THEN BitOr(f1, FLAG_NEGATIVE) ELSE f1
    IN  IF a >= b THEN BitOr(f2, FLAG_CARRY) ELSE f2

-----------------------------------------------------------------------------
(* CPU construction and reset *)

\* what reset() leaves in state
ResetState ==
    [R |-> [i \in 0..7 |-> 0], PC |-> 0, FLAGS |-> 0, halted |-> FALSE]


-----------------------------------------------------------------------------
(* execute(): one operator per case of the switch.  Each takes the state   *)
(* after the PC was advanced and returns the state after the instruction.  *)

\* variant of HALT: the PC is put back on the HALT word
execHALT_rewindsPC(st) == [st EXCEPT !.halted = TRUE, !.PC = (st.PC + WORD - 1) % WORD]

execHALT(st) == [st EXCEPT !.halted = TRUE]

\* variant of MOVI: the immediate is sign-extended from bit 8
execMOVI_signExtend(st, rd, imm9) ==
    LET value == IF imm9 >= 256 THEN imm9 + (WORD - 512) ELSE imm9
    IN  [st EXCEPT !.R[rd] = value, !.FLAGS = setResultFlags(st.FLAGS, value)]

execMOVI(st, rd, imm9) ==
    [st EXCEPT !.R[rd] = imm9, !.FLAGS = setResultFlags(st.FLAGS, imm9)]

execMOV(st, rd, rs) ==
    [st EXCEPT !.R[rd] = st.R[rs], !.FLAGS = setResultFlags(st.FLAGS, st.R[rs])]

execLOAD(st, mem, cap, rd, rs) ==
    LET addr == st.R[rs]
        value == Bus_read(mem, cap, addr)
    IN  [st EXCEPT !.R[rd] = value, !.FLAGS = setResultFlags(st.FLAGS, value)]

\* variant of STORE: address and value registers exchanged
execSTORE_swapped(st, mem, cap, rd, rs) ==
    LET addr == st.R[rd]
    IN  Bus_write(mem, cap, addr, st.R[rs])

\* STORE changes the Bus only: the memory after it
execSTORE(st, mem, cap, rd, rs) ==
    LET addr == st.R[rs]
    IN  Bus_write(mem, cap, addr, st.R[rd])

execADD(st, rd, rs) ==
    LET a == st.R[rd]
        b == st.R[rs]
        result == (a + b) % WORD
    IN  [st EXCEPT !.R[rd] = result, !.FLAGS = setAddFlags(st.FLAGS, a, b, result)]

execSUB(st, rd, rs) ==
    LET a == st.R[rd]
        b == st.R[rs]
        result == (a - b + WORD) % WORD
    IN  [st EXCEPT !.R[rd] = result, !.FLAGS = setSubFlags(st.FLAGS, a, b, result)]

execAND(st, rd, rs) ==
    LET result == BitAnd(st.R[rd], st.R[rs])
    IN  [st EXCEPT !.R[rd] = result, !.FLAGS = setResultFlags(st.FLAGS, result)]

execOR(st, rd, rs) ==
    LET result == BitOr(st.R[rd], st.R[rs])
    IN  [st EXCEPT !.R[rd] = result, !.FLAGS = setResultFlags(st.FLAGS, result)]

execXOR(st, rd, rs) ==
    LET result == BitXor(st.R[rd], st.R[rs])
    IN  [st EXCEPT !.R[rd] = result, !.FLAGS = setResultFlags(st.FLAGS, result)]

execNOT(st, rd, rs) ==
    LET result == BitNot16(st.R[rs])
    IN  [st EXCEPT !.R[rd] = result, !.FLAGS = setResultFlags(st.FLAGS, result)]

\* variant of SHL: carry taken from bit 15 of the result
execSHL_carryFromResult(st, rd) ==
    LET val == st.R[rd]
        result == (val * 2) % WORD
        f0 == ClearBits(st.FLAGS, FLAG_ZERO + FLAG_CARRY + FLAG_NEGATIVE)
        f1 == IF result = 0 THEN BitOr(f0, FLAG_ZERO) ELSE f0
        f2 == IF BitAnd(result, 32768) # 0 THEN BitOr(f1, FLAG_NEGATIVE) ELSE f1
        f3 == IF BitAnd(result, 32768) # 0 THEN BitOr(f2, FLAG_CARRY) ELSE f2
    IN  [st EXCEPT !.R[rd] = result, !.FLAGS = f3]

execSHL(st, rd) ==
    LET val == st.R[rd]
        result == (val * 2) % WORD
        f0 == ClearBits(st.FLAGS, FLAG_ZERO + FLAG_CARRY + FLAG_NEGATIVE)
        f1 == IF result = 0 THEN BitOr(f0, FLAG_ZERO) ELSE f0
        f2 == IF BitAnd(result, 32768) # 0 THEN BitOr(f1, FLAG_NEGATIVE) ELSE f1
        f3 == IF BitAnd(val, 32768) # 0 THEN BitOr(f2, FLAG_CARRY) ELSE f2
    IN  [st EXCEPT !.R[rd] = result, !.FLAGS = f3]

execSHR(st, rd) ==
    LET val == st.R[rd]
        result == val \div 2
        f0 == ClearBits(st.FLAGS, FLAG_ZERO + FLAG_CARRY + FLAG_NEGATIVE)
        f1 == IF result = 0 THEN BitOr(f0, FLAG_ZERO) ELSE f0
        f2 == IF BitAnd(result, 32768) # 0 THEN BitOr(f1, FLAG_NEGATIVE) ELSE f1
        f3 == IF BitAnd(val, 1) # 0 THEN BitOr(f2, FLAG_CARRY) ELSE f2
    IN  [st EXCEPT !.R[rd] = result, !.FLAGS = f3]

execJMP(st, rs) == [st EXCEPT !.PC = st.R[rs]]

\* variant of JZ: jumps when Z is clear
execJZ_inverted(st, rs) ==
    IF BitAnd(st.FLAGS, FLAG_ZERO) = 0 THEN [st EXCEPT !.PC = st.R[rs]] ELSE st

execJZ(st, rs) ==
    IF BitAnd(st.FLAGS, FLAG_ZERO) # 0 THEN [st EXCEPT !.PC = st.R[rs]] ELSE st

\* variant of NOP / default: an opcode that does nothing halts the core
execNOP_halts(st) == [st EXCEPT !.halted = TRUE]

\* case Opcode::NOP and default: nothing changes
execNOP(st) == st

\* the locals op, rd, rs, imm9 of execute()
Decoded(inst) ==
    [op |-> decodeOpcode(inst), rd |-> decodeRd(inst),
     rs |-> decodeRs(inst), imm9 |-> decodeImm9(inst)]

\* execute(instruction) on CPU state st and Bus (mem, cap): the state and the
\* memory after it
execute(st, mem, cap, inst) ==
    LET d == Decoded(inst)
        op == d.op
        rd == d.rd
        rs == d.rs
        imm9 == d.imm9
    IN  [state |->
            CASE op = HALT  -> execHALT(st)
              [] op = MOVI  -> execMOVI(st, rd, imm9)
              [] op = MOV   -> execMOV(st, rd, rs)
              [] op = LOAD  -> execLOAD(st, mem, cap, rd, rs)
              [] op = ADD   -> execADD(st, rd, rs)
              [] op = SUB   -> execSUB(st, rd, rs)
              [] op = AND   -> execAND(st, rd, rs)
              [] op = OR    -> execOR(st, rd, rs)
              [] op = XOR   -> execXOR(st, rd, rs)
              [] op = NOT   -> execNOT(st, rd, rs)
              [] op = SHL   -> execSHL(st, rd)
              [] op = SHR   -> execSHR(st, rd)
              [] op = JMP   -> execJMP(st, rs)
              [] op = JZ    -> execJZ(st, rs)
              [] OTHER      -> execNOP(st),
         memory |->
            IF op = STORE THEN execSTORE(st, mem, cap, rd, rs) ELSE mem]

-----------------------------------------------------------------------------
(* step(): the state, the memory and the return value after one call, and  *)
(* whether the call fetched an instruction word (and which)                *)

\* variant of step(): no test of state.halted
step_noHaltCheck(st, mem, cap) ==
    LET inst == Bus_read(mem, cap, st.PC)
        st1 == [st EXCEPT !.PC = (st.PC + 1) % WORD]
        ex == execute(st1, mem, cap, inst)
    IN  [state |-> ex.state, memory |-> ex.memory, ret |-> ~ex.state.halted,
         fetched |-> TRUE, instruction |-> inst]

\* variant of step(): returns true after executing
step_returnsTrue(st, mem, cap) ==
    IF st.halted
    THEN [state |-> st, memory |-> mem, ret |-> FALSE,
          fetched |-> FALSE, instruction |-> 0]
    ELSE LET inst == Bus_read(mem, cap, st.PC)
             st1 == [st EXCEPT !.PC = (st.PC + 1) % WORD]
             ex == execute(st1, mem, cap, inst)
         IN  [state |-> ex.state, memory |-> ex.memory, ret |-> TRUE,
              fetched |-> TRUE, instruction |-> inst]

\* variant of step(): the PC is advanced after execute() instead of before
step_pcAfterExecute(st, mem, cap) ==
    IF st.halted
    THEN [state |-> st, memory |-> mem, ret |-> FALSE,
          fetched |-> FALSE, instruction |-> 0]
    ELSE LET inst == Bus_read(mem, cap, st.PC)
             ex == execute(st, mem, cap, inst)
             st1 == [ex.state EXCEPT !.PC = (ex.state.PC + 1) % WORD]
         IN  [state |-> st1, memory |-> ex.memory, ret |-> ~st1.halted,
              fetched |-> TRUE, instruction |-> inst]

step(st, mem, cap) ==
    IF st.halted
    THEN [state |-> st, memory |-> mem, ret |-> FALSE,
          fetched |-> FALSE, instruction |-> 0]
    ELSE LET inst == Bus_read(mem, cap, st.PC)
             st1 == [st EXCEPT !.PC = (st.PC + 1) % WORD]
             ex == execute(st1, mem, cap, inst)
         IN  [state |-> ex.state, memory |-> ex.memory, ret |-> ~ex.state.halted,
              fetched |-> TRUE, instruction |-> inst]

\* step(): what the `if (tracing)` block prints before PC advances
cycleTrace(st, inst) ==
    [PC |-> st.PC, instruction |-> inst, R |-> st.R,
     Z |-> IF BitAnd(st.FLAGS, FLAG_ZERO) # 0 THEN 1 ELSE 0,
     C |-> IF BitAnd(st.FLAGS, FLAG_CARRY) # 0 THEN 1 ELSE 0,
     N |-> IF BitAnd(st.FLAGS, FLAG_NEGATIVE) # 0 THEN 1 ELSE 0]

\* execute(): the [EXEC] line of the case taken, by its opcode and operand
\* fields and the PC it leaves
execTrace(st2, inst) ==
    [op |-> decodeOpcode(inst), rd |-> decodeRd(inst), rs |-> decodeRs(inst),
     imm9 |-> decodeImm9(inst), PC |-> st2.PC]

\* variant of step() with tracing: printing the cycle consumes the word, PC
\* is advanced once more
stepTraced_advances(st, mem, cap, tr) ==
    LET r == step(st, mem, cap)
        st2 == IF tr /\ r.fetched
               THEN [r.state EXCEPT !.PC = (r.state.PC + 1) % WORD]
               ELSE r.state
    IN  [state |-> st2, memory |-> r.memory, ret |-> r.ret,
         fetched |-> r.fetched, instruction |-> r.instruction,
         out |-> IF tr /\ r.fetched
                 THEN << cycleTrace(st, r.instruction),
                         execTrace(st2, r.instruction) >>
                 ELSE << >>]

\* step() of a core whose trace flag is tr: the step, and what it prints
stepTraced(st, mem, cap, tr) ==
    LET r == step(st, mem, cap)
    IN  [state |-> r.state, memory |-> r.memory, ret |-> r.ret,
         fetched |-> r.fetched, instruction |-> r.instruction,
         out |-> IF tr /\ r.fetched
                 THEN << cycleTrace(st, r.instruction),
                         execTrace(r.state, r.instruction) >>
                 ELSE << >>]

-----------------------------------------------------------------------------
(* Inputs: memory images the assembler leaves in the Bus, operand words    *)

\* an instruction word from its fields
Enc(op, rd, rs, low) == op * 4096 + rd * 512 + rs * 64 + low

\* the image holding the words of seq from address 0 on
Image(seq) ==
    [x \in {i - 1 : i \in {j \in DOMAIN seq : seq[j] # 0}} |-> seq[x + 1]]

\* operand words typed by the user
Values == {0, 1, 5, 32767, 32768, 65535}

\* the register pairs (rd, rs) of the instructions under test
RegPairs == {<<0, 1>>, <<1, 0>>, <<0, 0>>}

\* first instruction under test: leaves the flags the second one starts from
Words1 ==
    {Enc(NOP, 0, 0, 0), Enc(ADD, 0, 1, 0), Enc(SUB, 0, 1, 0), Enc(SHR, 0, 0, 0),
     Enc(STORE, 0, 1, 0)}

\* second instruction under test: every opcode
Words2 ==
    {Enc(op, p[1], p[2], 0) : op \in 0..15, p \in RegPairs}
    \cup {Enc(MOVI, 0, 0, 5), Enc(MOVI, 1, 7, 63), Enc(MOVI, 2, 1, 1)}

\* R0 := mem[0x100]; R1 := mem[0x101], the operand cells main() fills
Prologue ==
    << Enc(MOVI, 0, 4, 0), Enc(LOAD, 0, 0, 0), Enc(MOVI, 1, 4, 1), Enc(LOAD, 1, 1, 0) >>

\* [MOVI R0 := 5, HALT]
ProgMovi5Halt == Image(<< Enc(MOVI, 0, 0, 5), Enc(HALT, 0, 0, 0) >>)

\* every pair of instructions under test, behind the prologue
Images ==
    {Image(Prologue \o << w1, w2 >>) : w1 \in Words1, w2 \in Words2}
    \cup {ProgMovi5Halt}

\* the programs and operands of the specification that also resets and runs:
\* one word of every opcode behind a NOP or a SUB
DriverImages ==
    {Image(Prologue \o << w1, Enc(op, 0, 1, 0) >>) :
        w1 \in {Enc(NOP, 0, 0, 0), Enc(SUB, 0, 1, 0)}, op \in 0..15}
    \cup {ProgMovi5Halt}

DriverValues == {0, 5, 65535}

-----------------------------------------------------------------------------
(* The emulator: construction, the driver's loading, step, reset, run *)

NoDec == [op |-> 0, rd |-> 0, rs |-> 0, imm9 |-> 0]

\* runRet before any run() returned
NoRet == 0 - 1

\* no second core yet
NoTwin ==
    [paired |-> FALSE, state |-> ResetState, memory |-> ZeroMemory,
     ret |-> FALSE, out |-> << >>]

\* Bus bus; GPRCPU cpu(bus);  (all but the Bus capacity and the word to decode)
Constructed ==
    /\ state = ResetState
    /\ memory = ZeroMemory
    /\ call = "construct"
    /\ arg = << >>
    /\ ret = FALSE
    /\ dec = NoDec
    /\ pc = "idle"
    /\ cycles = 0
    /\ runRet = NoRet
    /\ entry = [state |-> ResetState, memory |-> ZeroMemory, fetches |-> 0, runnable |-> 0]
    /\ fetches = 0
    /\ runnable = 0
    /\ tracing = FALSE
    /\ out = << >>
    /\ twin = NoTwin

Init ==
    /\ Constructed
    /\ capacity = MEMORY_SIZE
    /\ instruction = 0

\* main(): assembleFile(asmPath, bus.getMemory(), MEMORY_SIZE) succeeded
assembleFile(img) ==
    /\ call = "construct"
    /\ memory' = img
    /\ call' = "assembleFile"
    /\ arg' = << >>
    /\ UNCHANGED << state, capacity, ret, instruction, dec, pc, cycles, runRet,
                    entry, fetches, runnable,
                    traceVars >>

\* main(): bus.write(0x100, a)
writeOperandA(a) ==
    /\ call = "assembleFile"
    /\ memory' = Bus_write(memory, capacity, 256, a)
    /\ call' = "operandA"
    /\ arg' = << 256, a >>
    /\ UNCHANGED << state, capacity, ret, instruction, dec, pc, cycles, runRet,
                    entry, fetches, runnable,
                    traceVars >>

\* main(): bus.write(0x101, b)
writeOperandB(b) ==
    /\ call = "operandA"
    /\ memory' = Bus_write(memory, capacity, 257, b)
    /\ call' = "operandB"
    /\ arg' = << 257, b >>
    /\ UNCHANGED << state, capacity, ret, instruction, dec, pc, cycles, runRet,
                    entry, fetches, runnable,
                    traceVars >>

\* the effect of one call of step() on the CPU, the Bus and the counters
StepEffect ==
    \E r \in {step(state, memory, capacity)} :
        /\ state' = r.state
        /\ memory' = r.memory
        /\ ret' = r.ret
        /\ instruction' = IF r.fetched THEN r.instruction ELSE instruction
        /\ dec' = IF r.fetched THEN Decoded(r.instruction) ELSE dec
        /\ fetches' = IF r.fetched THEN fetches + 1 ELSE fetches
        /\ runnable' = IF r.ret THEN runnable + 1 ELSE runnable

\* cpu.step() called by the driver
Step ==
    /\ pc = "idle"
    /\ state.halted \/ fetches < MaxFetches
    /\ StepEffect
    /\ call' = "step"
    /\ arg' = << >>
    /\ UNCHANGED << capacity, pc, cycles, runRet, entry,
                    traceVars >>

\* variant of reset(): halted is left as it was
Reset_keepsHalted ==
    /\ pc = "idle"
    /\ state' = [ResetState EXCEPT !.halted = state.halted]
    /\ call' = "reset"
    /\ arg' = << >>
    /\ UNCHANGED << memory, capacity, ret, instruction, dec, pc, cycles, runRet,
                    entry, fetches, runnable,
                    traceVars >>

\* cpu.reset()
Reset ==
    /\ pc = "idle"
    /\ state' = ResetState
    /\ call' = "reset"
    /\ arg' = << >>
    /\ UNCHANGED << memory, capacity, ret, instruction, dec, pc, cycles, runRet,
                    entry, fetches, runnable,
                    traceVars >>

\* cpu.run() entered: size_t cycles = 0
RunCall ==
    /\ pc = "idle"
    /\ pc' = "loop"
    /\ cycles' = 0
    /\ entry' = [state |-> state, memory |-> memory, fetches |-> fetches,
                 runnable |-> runnable]
    /\ call' = "run"
    /\ arg' = << >>
    /\ UNCHANGED << state, memory, capacity, ret, instruction, dec, runRet,
                    fetches, runnable,
                    traceVars >>

\* variant of run(): ++cycles for every step() called
RunLoop_countsEveryStep ==
    /\ pc = "loop"
    /\ state.halted \/ fetches < MaxFetches
    /\ StepEffect
    /\ cycles' = cycles + 1
    /\ pc' = IF ret' THEN "loop" ELSE "exit"
    /\ call' = "step"
    /\ arg' = << >>
    /\ UNCHANGED << capacity, runRet, entry,
                    traceVars >>

\* variant of run(): the loop gives up after three counted cycles
RunLoop_stepBound ==
    /\ pc = "loop"
    /\ state.halted \/ fetches < MaxFetches
    /\ StepEffect
    /\ cycles' = IF ret' THEN cycles + 1 ELSE cycles
    /\ pc' = IF ret' /\ cycles < 3 THEN "loop" ELSE "exit"
    /\ call' = "step"
    /\ arg' = << >>
    /\ UNCHANGED << capacity, runRet, entry,
                    traceVars >>

\* run(): while (step()) ++cycles;  (one iteration)
RunLoop ==
    /\ pc = "loop"
    /\ state.halted \/ fetches < MaxFetches
    /\ StepEffect
    /\ cycles' = IF ret' THEN cycles + 1 ELSE cycles
    /\ pc' = IF ret' THEN "loop" ELSE "exit"
    /\ call' = "step"
    /\ arg' = << >>
    /\ UNCHANGED << capacity, runRet, entry,
                    traceVars >>

\* run(): return cycles
RunReturn ==
    /\ pc = "exit"
    /\ runRet' = cycles
    /\ pc' = "idle"
    /\ call' = "return"
    /\ arg' = << >>
    /\ UNCHANGED << state, memory, capacity, ret, instruction, dec, cycles,
                    entry, fetches, runnable,
                    traceVars >>

\* the driver loads a program and operands, then calls step(), reset() and
\* run() in any order
Next ==
    \/ \E img \in DriverImages : assembleFile(img)
    \/ \E a \in DriverValues : writeOperandA(a)
    \/ \E b \in DriverValues : writeOperandB(b)
    \/ Step
    \/ Reset
    \/ RunCall
    \/ RunLoop
    \/ RunReturn

Spec == Init /\ [][Next]_vars

\* the driver loads a program and operands, then calls run()
NextRun ==
    \/ \E img \in DriverImages : assembleFile(img)
    \/ \E a \in DriverValues : writeOperandA(a)
    \/ \E b \in DriverValues : writeOperandB(b)
    \/ RunCall
    \/ RunLoop
    \/ RunReturn

\* run() is sequential code, so once entered its loop and its return go on
\* whenever they can
SpecRun == Init /\ [][NextRun]_vars /\ WF_vars(RunLoop) /\ WF_vars(RunReturn)

\* the driver loads any of the programs and operands, then single-steps
NextExec ==
    \/ \E img \in Images : assembleFile(img)
    \/ \E a \in Values : writeOperandA(a)
    \/ \E b \in Values : writeOperandB(b)
    \/ Step

SpecExec == Init /\ [][NextExec]_vars

-----------------------------------------------------------------------------
(* Two cores stepped together, one tracing and one not *)

\* main(): cpu.trace(true), with a second core on a Bus of the same contents
\* left at tracing(false)
trace ==
    /\ call = "operandB"
    /\ tracing' = TRUE
    /\ out' = << >>
    /\ twin' = [paired |-> TRUE, state |-> state, memory |-> memory,
                ret |-> ret, out |-> << >>]
    /\ call' = "trace"
    /\ arg' = << TRUE >>
    /\ UNCHANGED << state, memory, capacity, ret, instruction, dec, pc, cycles,
                    runRet, entry, fetches, runnable >>

\* step() called on both cores
StepPair ==
    /\ twin.paired
    /\ state.halted \/ fetches < MaxFetches
    /\ \E r \in {stepTraced(state, memory, capacity, tracing)},
          t \in {stepTraced(twin.state, twin.memory, capacity, FALSE)} :
          /\ state' = r.state
          /\ memory' = r.memory
          /\ ret' = r.ret
          /\ out' = r.out
          /\ instruction' = IF r.fetched THEN r.instruction ELSE instruction
          /\ dec' = IF r.fetched THEN Decoded(r.instruction) ELSE dec
          /\ fetches' = IF r.fetched THEN fetches + 1 ELSE fetches
          /\ runnable' = IF r.ret THEN runnable + 1 ELSE runnable
          /\ twin' = [paired |-> TRUE, state |-> t.state, memory |-> t.memory,
                      ret |-> t.ret, out |-> t.out]
    /\ call' = "step"
    /\ arg' = << >>
    /\ UNCHANGED << capacity, pc, cycles, runRet, entry, tracing >>

\* the driver loads any of the programs and operands, enables tracing and
\* steps the two cores
NextTrace ==
    \/ \E img \in Images : assembleFile(img)
    \/ \E a \in Values : writeOperandA(a)
    \/ \E b \in Values : writeOperandB(b)
    \/ trace
    \/ StepPair

SpecTrace == Init /\ [][NextTrace]_vars

-----------------------------------------------------------------------------
(* The decode helpers on every 16-bit instruction word *)

InitDecode ==
    /\ Constructed
    /\ capacity = MEMORY_SIZE
    /\ instruction \in 0..(WORD - 1)

\* decodeOpcode, decodeRd, decodeRs, decodeImm9 applied to one word
decode ==
    /\ call = "construct"
    /\ dec' = Decoded(instruction)
    /\ call' = "decode"
    /\ arg' = << instruction >>
    /\ UNCHANGED << state, memory, capacity, ret, instruction, pc, cycles,
                    runRet, entry, fetches, runnable,
                    traceVars >>

NextDecode == decode

SpecDecode == InitDecode /\ [][NextDecode]_vars

-----------------------------------------------------------------------------
(* A Bus of any capacity read and written at any 16-bit address *)

BusCapacities == (1..MaxCapacity) \cup {MEMORY_SIZE}

BusAddresses == (0..(MaxCapacity + 1)) \cup {WORD - 1}

BusValues == {0, 1, 65535}

InitBus ==
    /\ Constructed
    /\ capacity \in BusCapacities
    /\ instruction = 0

\* bus.read(address)
busRead(address) ==
    /\ ret' = Bus_read(memory, capacity, address)
    /\ call' = "read"
    /\ arg' = << address >>
    /\ UNCHANGED << state, memory, capacity, instruction, dec, pc, cycles,
                    runRet, entry, fetches, runnable,
                    traceVars >>

\* bus.write(address, value)
busWrite(address, value) ==
    /\ memory' = Bus_write(memory, capacity, address, value)
    /\ call' = "write"
    /\ arg' = << address, value >>
    /\ UNCHANGED << state, capacity, ret, instruction, dec, pc, cycles,
                    runRet, entry, fetches, runnable,
                    traceVars >>

NextBus ==
    \/ \E address \in BusAddresses : busRead(address)
    \/ \E address \in BusAddresses, value \in BusValues : busWrite(address, value)

SpecBus == InitBus /\ [][NextBus]_vars

-----------------------------------------------------------------------------
(* Properties *)

\* the flags of a CPU state
ZeroSet(st) == (st.FLAGS \div FLAG_ZERO) % 2 = 1
CarrySet(st) == (st.FLAGS \div FLAG_CARRY) % 2 = 1
NegativeSet(st) == (st.FLAGS \div FLAG_NEGATIVE) % 2 = 1

\* the fields of an instruction word, by position
OpField(w) == w \div 4096
RdField(w) == (w \div 512) % 8
RsField(w) == (w \div 64) % 8

\* the word at PC, which a step() taken now would fetch
WordAtPC == IF state.PC < capacity THEN Cell(memory, state.PC) ELSE 0

\* this transition is a call of step() on a core that was not halted
Executes(op) ==
    /\ call' = "step"
    /\ ~state.halted
    /\ fetches' = fetches + 1
    /\ OpField(WordAtPC) = op

\* C1: once halted is true, every step() returns false, fetches nothing and
\* leaves the registers, PC, FLAGS, halted and every Bus cell as they were;
\* halted becomes false again only through reset().
C1_HaltedIsFrozen ==
    [][ state.halted =>
          /\ (call' = "step" =>
                /\ ret' = FALSE
                /\ fetches' = fetches
                /\ state' = state
                /\ memory' = memory)
          /\ (~state'.halted => call' = "reset") ]_vars

\* a step() was called by the driver on the halted core that run() left
C1_Witness ==
    /\ call = "step"
    /\ pc = "idle"
    /\ state.halted
    /\ ret = FALSE
    /\ runRet # NoRet
    /\ ~entry.state.halted
    /\ fetches = entry.fetches + runRet + 1

\* C2: step() returns true except when called on a halted core and when it
\* executes HALT; its return value is NOT halted after the call.
C2_StepReportsRunnable ==
    [][ call' = "step" =>
          /\ ret' = ~state'.halted
          /\ (ret' = FALSE <=> (state.halted \/ OpField(WordAtPC) = HALT)) ]_vars

\* a step() that executed HALT after steps that reported runnable
C2_Witness ==
    /\ call = "step"
    /\ ret = FALSE
    /\ state.halted
    /\ OpField(instruction) = HALT
    /\ runnable >= 2
    /\ fetches = runnable + 1

\* C3: run() on a non-halted core returns the number of steps that reported
\* runnable, one less than the number of words fetched; from reset with
\* [MOVI R0 := 5, HALT] at 0 it returns 1 with R0 = 5 and halted.
C3_RunCount ==
    /\ (call = "return" /\ ~entry.state.halted) =>
          /\ runRet = runnable - entry.runnable
          /\ runRet = (fetches - entry.fetches) - 1
          /\ state.halted
    /\ (call = "return" /\ entry.state = ResetState /\ entry.memory = ProgMovi5Halt) =>
          /\ runRet = 1
          /\ state.R[0] = 5
          /\ state.halted

\* run() returned from the program [MOVI R0 := 5, HALT] entered at reset
C3_Witness ==
    /\ call = "return"
    /\ entry.state = ResetState
    /\ entry.memory = ProgMovi5Halt
    /\ runRet = 1

\* Z and N of a CPU state are those of the 16-bit value v
ZNOf(st, v) ==
    /\ ZeroSet(st) <=> v = 0
    /\ NegativeSet(st) <=> v >= 32768

\* C4: ADD sets R[Rd] to (a + b) mod 65536 for the original a = R[Rd],
\* b = R[Rs] (also when Rd = Rs), CARRY iff a + b > 65535, ZERO iff the
\* result is 0, NEGATIVE iff bit 15 of the result is 1.
C4_Add ==
    [][ Executes(ADD) =>
          LET rd == RdField(WordAtPC)
              a == state.R[rd]
              b == state.R[RsField(WordAtPC)]
          IN  /\ state'.R[rd] = (a + b) % 65536
              /\ CarrySet(state') <=> (a + b > 65535)
              /\ ZNOf(state', state'.R[rd]) ]_vars

\* ADD R0, R1 just ran on 0xFFFF + 0x0001: result 0, ZERO and CARRY set
C4_Witness ==
    /\ call = "step"
    /\ instruction = Enc(ADD, 0, 1, 0)
    /\ state.R[0] = 0
    /\ state.R[1] = 1
    /\ ZeroSet(state) /\ CarrySet(state) /\ ~NegativeSet(state)

\* C5: SUB sets R[Rd] to (a - b) mod 65536 for the original a = R[Rd],
\* b = R[Rs], CARRY iff a >= b (no borrow), ZERO iff the result is 0,
\* NEGATIVE iff bit 15 of the result is 1.
C5_Sub ==
    [][ Executes(SUB) =>
          LET rd == RdField(WordAtPC)
              a == state.R[rd]
              b == state.R[RsField(WordAtPC)]
          IN  /\ state'.R[rd] = (a - b + 65536) % 65536
              /\ CarrySet(state') <=> (a >= b)
              /\ ZNOf(state', state'.R[rd]) ]_vars

\* SUB R0, R1 just ran on (5, 5): result 0, ZERO and CARRY set
C5_Witness ==
    /\ call = "step"
    /\ instruction = Enc(SUB, 0, 1, 0)
    /\ state.R[0] = 0
    /\ state.R[1] = 5
    /\ ZeroSet(state) /\ CarrySet(state) /\ ~NegativeSet(state)

\* C6: SHL sets R[Rd] to (val * 2) mod 65536 with CARRY = bit 15 of the
\* original val; SHR sets R[Rd] to val div 2 with CARRY = bit 0 of the
\* original val; Z and N are those of the result.
C6_Shift ==
    [][ /\ Executes(SHL) =>
             LET rd == RdField(WordAtPC)
                 val == state.R[rd]
             IN  /\ state'.R[rd] = (val * 2) % 65536
                 /\ CarrySet(state') <=> (val >= 32768)
                 /\ ZNOf(state', state'.R[rd])
        /\ Executes(SHR) =>
             LET rd == RdField(WordAtPC)
                 val == state.R[rd]
             IN  /\ state'.R[rd] = val \div 2
                 /\ CarrySet(state') <=> (val % 2 = 1)
                 /\ ZNOf(state', state'.R[rd]) ]_vars

\* SHL R1 just ran on 0x8000 (R1 holds operand B): result 0, CARRY and ZERO set
C6_Witness ==
    /\ call = "step"
    /\ instruction = Enc(SHL, 1, 0, 0)
    /\ Cell(memory, 257) = 32768
    /\ Cell(memory, 4) = Enc(NOP, 0, 0, 0)
    /\ state.PC = 6
    /\ state.R[1] = 0
    /\ ZeroSet(state) /\ CarrySet(state) /\ ~NegativeSet(state)

\* C7: a step that executes JZ leaves PC one word past the JZ when ZERO is
\* clear and sets PC to R[Rs] when ZERO is set; registers, flags, halted and
\* memory are unchanged in both cases.
C7_Jz ==
    [][ Executes(JZ) =>
          /\ state'.PC = IF ZeroSet(state)
                         THEN state.R[RsField(WordAtPC)]
                         ELSE (state.PC + 1) % 65536
          /\ state'.R = state.R
          /\ state'.FLAGS = state.FLAGS
          /\ state'.halted = state.halted
          /\ memory' = memory ]_vars

\* JZ at address 5 just ran with ZERO clear: PC is 6
C7_Witness ==
    /\ call = "step"
    /\ OpField(instruction) = JZ
    /\ fetches = 6
    /\ ~ZeroSet(state)
    /\ state.PC = 6

\* the opcodes whose flags come from setResultFlags
ResultFlagOps == {MOVI, MOV, LOAD, AND, OR, XOR, NOT}

\* C8: after MOVI, MOV, LOAD, AND, OR, XOR or NOT, whatever the flags were
\* before, ZERO is set iff the value written to R[Rd] is 0, NEGATIVE iff its
\* bit 15 is 1, and CARRY is clear.
C8_FlagsRecomputed ==
    [][ (\E op \in ResultFlagOps : Executes(op)) =>
          /\ ZNOf(state', state'.R[RdField(WordAtPC)])
          /\ ~CarrySet(state')
          /\ state'.FLAGS \in 0..(FLAG_ZERO + FLAG_CARRY + FLAG_NEGATIVE) ]_vars

\* MOV R1, R0 just ran behind an ADD that set CARRY and ZERO (0xFFFF + 1):
\* ZERO is set for the 0 moved, CARRY is clear
C8_Witness ==
    /\ call = "step"
    /\ instruction = Enc(MOV, 1, 0, 0)
    /\ Cell(memory, 4) = Enc(ADD, 0, 1, 0)
    /\ Cell(memory, 256) = 65535
    /\ Cell(memory, 257) = 1
    /\ state.PC = 6
    /\ state.FLAGS = FLAG_ZERO

\* C9: on a Bus of capacity N, read(address) with address >= N returns 0, and
\* write(address, value) with address >= N leaves what every in-range read
\* returns as it was.
C9_BusOutOfRange ==
    [][ /\ (call' = "read" /\ arg'[1] >= capacity) => ret' = 0
        /\ (call' = "write" /\ arg'[1] >= capacity) =>
              \A a \in 0..(capacity - 1) :
                  Bus_read(memory', capacity, a) = Bus_read(memory, capacity, a) ]_vars

\* a write beyond the capacity was made to a Bus whose last cell holds 0xFFFF
C9_Witness ==
    /\ call = "write"
    /\ arg[1] >= capacity
    /\ arg[2] = 1
    /\ Bus_read(memory, capacity, capacity - 1) = 65535

\* C10: for every 16-bit word the decode helpers return bits 15-12, 11-9,
\* 8-6 and 8-0: the opcode is in 0..15, Rd and Rs in 0..7, imm9 in 0..511, and
\* the word is opcode * 4096 + Rd * 512 + imm9 with Rs the top three bits of
\* imm9.
C10_DecodeFields ==
    call = "decode" =>
        /\ dec.op \in 0..15
        /\ dec.rd \in 0..7
        /\ dec.rs \in 0..7
        /\ dec.imm9 \in 0..511
        /\ instruction = dec.op * 4096 + dec.rd * 512 + dec.imm9
        /\ dec.rs = dec.imm9 \div 64

\* the word 0xA5C3 was decoded: opcode 10, Rd 2, Rs 7, imm9 0x1C3
C10_Witness ==
    /\ call = "decode"
    /\ instruction = 42435
    /\ dec = [op |-> 10, rd |-> 2, rs |-> 7, imm9 |-> 451]

\* the 16-bit registers are all 0
AllRegistersZero(st) == \A i \in 0..7 : st.R[i] = 0

\* C11: reset(), in any state, sets the eight registers, PC and FLAGS to 0
\* and halted to false and leaves every Bus cell as it was; a step() after
\* reset fetches the word at address 0.
C11_Reset ==
    [][ /\ call' = "reset" =>
              /\ AllRegistersZero(state')
              /\ state'.PC = 0
              /\ state'.FLAGS = 0
              /\ state'.halted = FALSE
              /\ memory' = memory
        /\ (call = "reset" /\ call' = "step") =>
              /\ fetches' = fetches + 1
              /\ instruction' = Cell(memory, 0) ]_vars

\* reset() was called on a core that had run the whole program and halted
C11_Witness ==
    /\ call = "reset"
    /\ fetches >= 7
    /\ ret = FALSE
    /\ memory # ZeroMemory
    /\ AllRegistersZero(state)
    /\ state.PC = 0
    /\ ~state.halted

\* C12: a step that executes HALT sets halted and changes nothing else; PC
\* is the HALT word's address plus one.
C12_Halt ==
    [][ Executes(HALT) =>
          /\ state'.halted = TRUE
          /\ state'.PC = (state.PC + 1) % 65536
          /\ state'.R = state.R
          /\ state'.FLAGS = state.FLAGS
          /\ memory' = memory ]_vars

\* the HALT word at address 6 was executed with flags set
C12_Witness ==
    /\ call = "step"
    /\ OpField(instruction) = HALT
    /\ state.halted
    /\ state.PC = 7
    /\ fetches = 7
    /\ state.FLAGS # 0

\* C13: MOVI sets R[Rd] to the low 9 bits of the word, whatever the registers
\* hold (also the register whose index is bits 8-6 of the word), and changes
\* no other register.
C13_Movi ==
    [][ Executes(MOVI) =>
          /\ state'.R[RdField(WordAtPC)] = WordAtPC % 512
          /\ \A i \in 0..7 \ {RdField(WordAtPC)} : state'.R[i] = state.R[i] ]_vars

\* MOVI R2, 65 ran (bits 8-6 of the word name R1) while R1 held 0xFFFF
C13_Witness ==
    /\ call = "step"
    /\ instruction = Enc(MOVI, 2, 1, 1)
    /\ state.R[2] = 65
    /\ state.R[1] = 65535

\* a CPU state of the declared widths
WellFormed(st) ==
    /\ DOMAIN st = {"R", "PC", "FLAGS", "halted"}
    /\ st.R \in [0..7 -> 0..65535]
    /\ st.PC \in 0..65535
    /\ st.FLAGS \in 0..(FLAG_ZERO + FLAG_CARRY + FLAG_NEGATIVE)
    /\ st.halted \in BOOLEAN

\* the opcodes that are one of the 15 named operations
NamedOps == {HALT, MOVI, MOV, LOAD, STORE, ADD, SUB, AND, OR, XOR, NOT, SHL, SHR, JMP, JZ}

\* C14: every step() on a non-halted core ends in a well-formed state, and a
\* word whose opcode is NOP or none of the 15 named operations changes only
\* PC, by one.
C14_NoFailure ==
    [][ /\ call' = "step" => WellFormed(state')
        /\ (\E op \in (0..15) \ NamedOps : Executes(op)) =>
              /\ state'.PC = (state.PC + 1) % 65536
              /\ state'.R = state.R
              /\ state'.FLAGS = state.FLAGS
              /\ state'.halted = state.halted
              /\ memory' = memory ]_vars

\* the NOP at address 5 was executed with flags set and R0 not 0
C14_Witness ==
    /\ call = "step"
    /\ OpField(instruction) \notin NamedOps
    /\ fetches = 6
    /\ state.PC = 6
    /\ state.FLAGS # 0
    /\ state.R[0] # 0
    /\ ~state.halted

\* C17: a step that executes STORE sets the cell at address R[Rs] to R[Rd],
\* changes no other cell, no register and no flag; a step that executes any
\* other instruction leaves every cell as it was.
C17_MemoryOnlyByStore ==
    [][ /\ Executes(STORE) =>
              LET addr == state.R[RsField(WordAtPC)]
              IN  /\ Cell(memory', addr) = state.R[RdField(WordAtPC)]
                  /\ \A a \in (DOMAIN memory \cup DOMAIN memory') \ {addr} :
                         Cell(memory', a) = Cell(memory, a)
                  /\ state'.R = state.R
                  /\ state'.FLAGS = state.FLAGS
        /\ (call' = "step" /\ ~Executes(STORE)) => memory' = memory ]_vars

\* STORE R0, (R1) ran with R0 = 5 and R1 = 0xFFFF: the last cell holds 5
C17_Witness ==
    /\ call = "step"
    /\ instruction = Enc(STORE, 0, 1, 0)
    /\ state.R[0] = 5
    /\ state.R[1] = 65535
    /\ Cell(memory, 65535) = 5
    /\ Cell(memory, 256) = 5

\* this transition executes a JZ that is taken
TakenJz == Executes(JZ) /\ ZeroSet(state)

\* C18: after every executed step whose instruction is neither JMP nor a
\* taken JZ, PC is the old PC + 1 mod 65536; after JMP, PC is the value R[Rs]
\* held before the instruction.
C18_PcAdvance ==
    [][ /\ (call' = "step" /\ ~state.halted /\ ~Executes(JMP) /\ ~TakenJz) =>
              state'.PC = (state.PC + 1) % 65536
        /\ Executes(JMP) => state'.PC = state.R[RsField(WordAtPC)] ]_vars

\* JMP R1 at address 5 went to 0xFFFF, and the word fetched there (HALT)
\* left PC at 0
C18_Witness ==
    /\ call = "step"
    /\ Cell(memory, 5) = Enc(JMP, 0, 1, 0)
    /\ state.R[1] = 65535
    /\ fetches = 7
    /\ OpField(instruction) = HALT
    /\ state.PC = 0

\* C19: FLAGS holds no bit other than ZERO, CARRY and NEGATIVE, and ZERO and
\* NEGATIVE are never both set.
C19_FlagsInvariant ==
    /\ state.FLAGS \in 0..65535
    /\ BitAnd(state.FLAGS, 65535 - (FLAG_ZERO + FLAG_CARRY + FLAG_NEGATIVE)) = 0
    /\ ~(ZeroSet(state) /\ NegativeSet(state))

\* CARRY and NEGATIVE are set together
C19_Witness ==
    /\ call = "step"
    /\ CarrySet(state) /\ NegativeSet(state) /\ ~ZeroSet(state)

\* C20: when the step before executed STORE Rd, (Rs) and this step executes
\* LOAD Rx, (Rs') with R[Rs'] the address the STORE used, R[Rx] becomes the
\* value the STORE wrote.  (STORE leaves the registers alone, so the STORE's
\* address and value are still in its Rs and Rd.)
C20_StoreLoadRoundTrip ==
    [][ ( /\ call = "step"
          /\ OpField(instruction) = STORE
          /\ Executes(LOAD)
          /\ state.R[RsField(WordAtPC)] = state.R[RsField(instruction)] ) =>
        state'.R[RdField(WordAtPC)] = state.R[RdField(instruction)] ]_vars

\* LOAD R0, (R1) ran right behind STORE R0, (R1) at address 0xFFFF, value 0x8000
C20_Witness ==
    /\ call = "step"
    /\ instruction = Enc(LOAD, 0, 1, 0)
    /\ Cell(memory, 4) = Enc(STORE, 0, 1, 0)
    /\ state.PC = 6
    /\ state.R[1] = 65535
    /\ state.R[0] = 32768
    /\ Cell(memory, 65535) = 32768

\* the word at PC is a JMP whose target register holds the JMP's own address
SelfJmp ==
    /\ ~state.halted
    /\ OpField(WordAtPC) = JMP
    /\ state.R[RsField(WordAtPC)] = state.PC

\* C16: run() leaves its loop and returns only when the core is halted, and
\* it does return once the core is halted; while the core is not halted the
\* loop goes on whatever the cycle count, and on a JMP to itself the core
\* comes back to the same state, still in the loop.
C16_RunReturnsIffHalt ==
    /\ [][ /\ call' = "return" => state'.halted
           /\ (pc = "loop" /\ pc' # "loop") => (pc' = "exit" /\ state'.halted)
           /\ (pc = "loop" /\ SelfJmp) =>
                 (pc' = "loop" /\ state' = state /\ memory' = memory) ]_vars
    /\ ((pc # "idle" /\ state.halted) ~> (call = "return"))

\* run() has gone three times through a JMP to itself and is still looping
C16_Witness ==
    /\ pc = "loop"
    /\ SelfJmp
    /\ state.PC = 5
    /\ fetches = 8
    /\ cycles = fetches - entry.fetches
    /\ cycles >= 3

====
